---- MODULE Spec2Model ----
(***************************************************************************)
(* A model of the sustainability GRI dashboard: the KPI block extraction   *)
(* of src/data_loader.py and of the PDF report page, the ESG score, the    *)
(* forecasting paths, anomaly flagging, the ETL run, the keyword           *)
(* dispatching chat agent and the command-line session.                    *)
(*                                                                         *)
(* Text is modelled as a sequence of one-character strings, so that        *)
(* lower-casing and substring search are computed, not assumed.  Numbers   *)
(* read from spreadsheets are integers; Value cells count hundredths, the  *)
(* resolution that round(x, 2) keeps.                                      *)
(***************************************************************************)
EXTENDS Integers, Sequences, FiniteSets, TLC

VARIABLES
    workbook,   \* the year file: a sequence of sheets, each a sequence of rows
    year,       \* the reporting year selected on the page
    dash,       \* pages/02: keyword -> what data_loader.get_kpi_block returned
    pdf,        \* pages/04: keyword -> what the page's own get_kpi_block returned
    kpis,       \* pages/05: the company's KPI dict, as its items in order
    esg,        \* pages/05: what calculate_esg_score returned (done FALSE before)
    points,     \* the (year, value) cells of one indicator, in spreadsheet order
    fcService,  \* what kpi_service.forecast_next_year made of them
    fcTab3,     \* what the Trends & Forecast tab made of them
    fcPdf,      \* what the company PDF's prediction section made of them
    series,     \* the cells an anomaly check runs over
    etlFlags,   \* the anomaly_flag column detect_anomalies wrote (<<>> before)
    pdfListed,  \* the indices the company PDF lists under anomalies
    program,    \* which program is running: "etl", "page" (pages/01) or "cli" (app.py)
    files,      \* run_etl: what reading each globbed file does, "ok" or "raises"
    etl,        \* run_etl: its place in the loop and the records list
    upload,     \* pages/01: what the user uploaded and pressed for this run
    session,    \* pages/01: the place in the script and st.session_state
    display,    \* what the ETL printed or the page showed, in order
    cache,      \* SustainabilityAgent._cache: indicator key -> the loaded data
    last,       \* app.py: the last line read and what handling it did
    turns,      \* app.py: how many lines have been read
    ended,      \* app.py: the loop has been left
    mailIn,     \* send_pdf_via_email: environment, email_config and what SMTP does
    mailOut,    \* send_pdf_via_email: how the call ended and what it did
    frame,      \* kpi_service: the indicator rows given to compute_yearly_totals
    yearlyOut,  \* kpi_service: the table compute_yearly_totals returned
    statusIn,   \* indicator_status: the yearly values of an indicator
    statusOut   \* indicator_status: what it returned

kpiVars == <<workbook, year, dash, pdf>>

esgVars == <<kpis, esg>>

fcVars == <<points, fcService, fcTab3, fcPdf>>

anVars == <<series, etlFlags, pdfListed>>

runVars == <<program, files, etl, upload, session, display, cache, last, turns, ended>>

mailVars == <<mailIn, mailOut>>

svcVars == <<frame, yearlyOut>>

stVars == <<statusIn, statusOut>>

libVars == <<mailVars, svcVars, stVars>>

vars == <<kpiVars, esgVars, fcVars, anVars, runVars, libVars>>

\* The state of a page that is not open.
IdleKpi ==
    /\ workbook = <<>>
    /\ year = 0
    /\ dash = <<>>
    /\ pdf = <<>>

IdleEsg ==
    /\ kpis = <<>>
    /\ esg = [done |-> FALSE]

IdleFc ==
    /\ points = <<>>
    /\ fcService = [status |-> "idle"]
    /\ fcTab3 = [status |-> "idle"]
    /\ fcPdf = [status |-> "idle"]

IdleMail ==
    /\ mailIn = [smtp |-> "idle"]
    /\ mailOut = [outcome |-> "idle"]

IdleSvc ==
    /\ frame = <<>>
    /\ yearlyOut = [done |-> FALSE]

IdleStatus ==
    /\ statusIn = <<>>
    /\ statusOut = [done |-> FALSE]

IdleLib == IdleMail /\ IdleSvc /\ IdleStatus

IdleRun ==
    /\ program = "none"
    /\ files = <<>>
    /\ etl = [pc |-> "idle"]
    /\ upload = [pdf_file |-> "none"]
    /\ session = [pc |-> "idle"]
    /\ display = <<>>
    /\ cache = <<>>
    /\ last = [called |-> FALSE]
    /\ turns = 0
    /\ ended = FALSE

IdleAn ==
    /\ series = <<>>
    /\ etlFlags = <<>>
    /\ pdfListed = [done |-> FALSE]

----------------------------------------------------------------------------
(* Text helpers: str.lower, str.strip and the `in` / str.contains search.  *)

UpperAlpha == <<"A","B","C","D","E","F","G","H","I","J","K","L","M",
                "N","O","P","Q","R","S","T","U","V","W","X","Y","Z">>

LowerAlpha == <<"a","b","c","d","e","f","g","h","i","j","k","l","m",
                "n","o","p","q","r","s","t","u","v","w","x","y","z">>

\* upper-case letter -> lower-case letter
LowerTable ==
    [c \in { UpperAlpha[i] : i \in 1..Len(UpperAlpha) } |->
        LowerAlpha[CHOOSE i \in 1..Len(UpperAlpha) : UpperAlpha[i] = c]]

LowerChar(c) == IF c \in DOMAIN LowerTable THEN LowerTable[c] ELSE c

Lower(s) == [i \in 1..Len(s) |-> LowerChar(s[i])]

\* needle in haystack
Contains(haystack, needle) ==
    \E i \in 0..(Len(haystack) - Len(needle)) :
        \A j \in 1..Len(needle) : haystack[i + j] = needle[j]

RECURSIVE Strip(_)
Strip(s) ==
    IF s = <<>> THEN s
    ELSE IF Head(s) = " " THEN Strip(Tail(s))
    ELSE IF s[Len(s)] = " " THEN Strip(SubSeq(s, 1, Len(s) - 1))
    ELSE s

Digits == <<"0","1","2","3","4","5","6","7","8","9">>

IsDigit(c) == \E i \in 1..Len(Digits) : Digits[i] = c

DigitVal(c) == (CHOOSE i \in 1..Len(Digits) : Digits[i] = c) - 1

IsDigits(s) == s # <<>> /\ \A i \in 1..Len(s) : IsDigit(s[i])

RECURSIVE ParseInt(_)
ParseInt(s) ==
    IF s = <<>> THEN 0
    ELSE ParseInt(SubSeq(s, 1, Len(s) - 1)) * Len(Digits) + DigitVal(s[Len(s)])

----------------------------------------------------------------------------
(* src/data_loader.py                                                      *)

\* The entries of MONTH_MAP that the month cells of the model can hit.
MONTH_MAP ==
    [k \in { <<"j","a","n">>, <<"f","e","b">>, <<"1">>, <<"2">>,
             <<"0","1">>, <<"0","2">> } |->
        IF k \in { <<"j","a","n">>, <<"1">>, <<"0","1">> } THEN 1 ELSE 2]

\* normalize_month: the month number, or raise for ValueError.
normalize_month(value) ==
    LET val == Lower(Strip(value)) IN
    IF val \in DOMAIN MONTH_MAP THEN [raise |-> FALSE, month |-> MONTH_MAP[val]]
    ELSE IF IsDigits(val) /\ ParseInt(val) >= 1 /\ ParseInt(val) <= 12
         THEN [raise |-> FALSE, month |-> ParseInt(val)]
    ELSE [raise |-> TRUE]

RECURSIVE ConcatSheets(_)
ConcatSheets(sheets) ==
    IF sheets = <<>> THEN <<>> ELSE Head(sheets) \o ConcatSheets(Tail(sheets))

\* A reader that stops after the first sheet.
read_first_sheet_only(file) == IF file = <<>> THEN <<>> ELSE Head(file)

\* read_all_sheets: every sheet of the file, concatenated in sheet order.
read_all_sheets(file) == ConcatSheets(file)

\* pd.to_numeric(errors="coerce").fillna(0) on a Value cell.
CoerceValue(cell) == IF cell.num THEN cell.v ELSE 0

\* A stable sort of rows by their (normalised) Month.
RECURSIVE InsertByMonth(_, _)
InsertByMonth(row, sorted) ==
    IF sorted = <<>> THEN <<row>>
    ELSE IF Head(sorted).Month <= row.Month
         THEN <<Head(sorted)>> \o InsertByMonth(row, Tail(sorted))
    ELSE <<row>> \o sorted

RECURSIVE SortByMonth(_)
SortByMonth(rows) ==
    IF rows = <<>> THEN <<>>
    ELSE InsertByMonth(rows[Len(rows)], SortByMonth(SubSeq(rows, 1, Len(rows) - 1)))

RECURSIVE SumValues(_)
SumValues(rows) ==
    IF rows = <<>> THEN 0 ELSE Head(rows).Value + SumValues(Tail(rows))

\* load_year_dataframe: raises when a Month cell is not recognised, else the
\* rows of the year with Month normalised and Value coerced, sorted by Month.
load_year_dataframe(file, y) ==
    LET df == read_all_sheets(file) IN
    IF \E i \in 1..Len(df) : normalize_month(df[i].Month).raise
    THEN [raise |-> TRUE]
    ELSE LET norm == [i \in 1..Len(df) |->
                        [Year |-> df[i].Year,
                         Month |-> normalize_month(df[i].Month).month,
                         Indicator |-> df[i].Indicator,
                         Value |-> CoerceValue(df[i].Value),
                         Unit |-> df[i].Unit]]
         IN [raise |-> FALSE,
             rows |-> SortByMonth(SelectSeq(norm, LAMBDA r : r.Year = y))]

\* Series.str.contains(keyword, case=False) on one Indicator cell.
IndicatorMatches(indicator, kw) == Contains(Lower(indicator), Lower(kw))

\* data_loader.get_kpi_block(year, keyword)
get_kpi_block(file, y, kw) ==
    LET df_year == load_year_dataframe(file, y) IN
    IF df_year.raise THEN [status |-> "raise"]
    ELSE LET block == SelectSeq(df_year.rows, LAMBDA r : IndicatorMatches(r.Indicator, kw)) IN
         IF block = <<>>
         THEN [status |-> "ok", total |-> 0, monthly |-> <<>>, unit |-> <<>>]
         ELSE [status |-> "ok",
               total |-> SumValues(block),
               monthly |-> LET sorted == SortByMonth(block)
                           IN [i \in 1..Len(sorted) |-> sorted[i].Value],
               unit |-> block[1].Unit]

----------------------------------------------------------------------------
(* src/pages/04_GRI_Report_PDF.py                                          *)

\* pd.read_excel(path) without sheet_name reads the first sheet only.
pdf_read_excel(file) == IF file = <<>> THEN <<>> ELSE Head(file)

\* The page's own get_kpi_block(keyword): no coercion of Value (a text cell
\* in the block makes sum()/round() raise TypeError), no sort by Month.
pdf_get_kpi_block(file, y, kw) ==
    LET df == pdf_read_excel(file)
        year_df == SelectSeq(df, LAMBDA r : r.Year = y)
        block == SelectSeq(year_df, LAMBDA r : IndicatorMatches(r.Indicator, kw))
    IN
    IF block = <<>>
    THEN [status |-> "ok", total |-> 0, monthly |-> <<>>, unit |-> <<>>]
    ELSE IF \E i \in 1..Len(block) : ~block[i].Value.num
         THEN [status |-> "raise"]
    ELSE [status |-> "ok",
          total |-> SumValues([i \in 1..Len(block) |->
                                [Value |-> block[i].Value.v]]),
          monthly |-> [i \in 1..Len(block) |-> block[i].Value.v],
          unit |-> block[1].Unit]

----------------------------------------------------------------------------
(* The spreadsheets the KPI pages are rendered on.                         *)

MaxRows == 2

Years == {2023, 2024}

MonthCells == { <<"1">>, <<"F","e","b">>, <<"1","3">> }

IndicatorCells == { <<"E","N","E","R","G","Y"," ","u","s","e">>,
                    <<"W","a","t","e","r">> }

\* 1.50, and a text cell.
ValueCells == { [num |-> TRUE, v |-> 150], [num |-> FALSE, v |-> 0] }

Keywords == { <<"E","n","e","r","g","y">>, <<"W","a","t","e","r">> }

UnitCell == <<"k","W","h">>

Rows == [Year : Years, Month : MonthCells, Indicator : IndicatorCells,
         Value : ValueCells, Unit : {UnitCell}]

\* The file has two sheets holding at most MaxRows rows together.
InitKpi ==
    /\ \E n1 \in 0..MaxRows, n2 \in 0..MaxRows :
          /\ n1 + n2 <= MaxRows
          /\ \E s1 \in [1..n1 -> Rows], s2 \in [1..n2 -> Rows] :
                workbook = <<s1, s2>>
    /\ year \in Years
    /\ dash = [kw \in Keywords |-> [status |-> "none"]]
    /\ pdf = [kw \in Keywords |-> [status |-> "none"]]
    /\ IdleEsg /\ IdleFc /\ IdleAn /\ IdleRun /\ IdleLib

\* pages/02_KPI_Dashboard.py: the dashboard loads the KPI block of each keyword.
RenderDashboard ==
    /\ \A kw \in Keywords : dash[kw].status = "none"
    /\ dash' = [kw \in Keywords |-> get_kpi_block(workbook, year, kw)]
    /\ UNCHANGED <<workbook, year, pdf, esgVars, fcVars, anVars, runVars, libVars>>

\* pages/04_GRI_Report_PDF.py: the report page extracts the KPI block of each keyword.
RenderPdfPage ==
    /\ \A kw \in Keywords : pdf[kw].status = "none"
    /\ pdf' = [kw \in Keywords |-> pdf_get_kpi_block(workbook, year, kw)]
    /\ UNCHANGED <<workbook, year, dash, esgVars, fcVars, anVars, runVars, libVars>>

NextKpi == RenderDashboard \/ RenderPdfPage

SpecKpi == InitKpi /\ [][NextKpi]_vars

\* The claims' own reading of the file: every row of every sheet.
AllRows == workbook[1] \o workbook[2]

RowSelected(r, kw) == r.Year = year /\ Contains(Lower(r.Indicator), Lower(kw))

RECURSIVE ColumnSum(_, _)
ColumnSum(n, kw) ==
    IF n = 0 THEN 0
    ELSE ColumnSum(n - 1, kw)
         + (IF RowSelected(AllRows[n], kw) /\ AllRows[n].Value.num
            THEN AllRows[n].Value.v ELSE 0)

C2_PdfPageAgreesWithDataLoader ==
    \A kw \in Keywords :
        (dash[kw].status = "ok" /\ pdf[kw].status = "ok") =>
            /\ pdf[kw].total = dash[kw].total
            /\ pdf[kw].monthly = dash[kw].monthly

----------------------------------------------------------------------------
(* src/pages/05_All_In_One_GRI_Platform.py: the ESG score.                 *)
(* Scores are exact: KPI values are whole numbers, weights count           *)
(* hundredths (0.25 is 25) and a score counts hundredths (35.00 is 3500).  *)

\* n / d rounded to the nearest integer, a tie going to the even one, as
\* round() does; d > 0.
RoundDiv(n, d) ==
    LET q == n \div d
        r == n - q * d
    IN IF 2 * r > d THEN q + 1
       ELSE IF 2 * r < d THEN q
       ELSE IF q % 2 = 0 THEN q ELSE q + 1

\* utils/data_validation.py normalize_numeric: float(value), or None.
normalize_numeric(value) ==
    IF value.num THEN [none |-> FALSE, v |-> value.v] ELSE [none |-> TRUE]

\* classify_kpi(value), the value counting hundredths.
classify_kpi(value) ==
    IF value <= 3000 THEN "Excellent"
    ELSE IF value <= 7000 THEN "Moderate"
    ELSE "Risky"

\* the weights dict of calculate_esg_score, in its order
weights ==
    << [key |-> <<"e","n","e","r","g","y">>, w |-> 25],
       [key |-> <<"w","a","t","e","r">>, w |-> 25],
       [key |-> <<"e","m","i","s","s","i","o","n">>, w |-> 35],
       [key |-> <<"w","a","s","t","e">>, w |-> 15] >>

Max(a, b) == IF a >= b THEN a ELSE b

\* A contribution without the floor at zero.
KeyContributionUnclamped(v, w) == (100 - v) * w

\* score += max(0, 100 - v) * w
KeyContribution(v, w) == Max(0, 100 - v) * w

\* The inner loop over weights.items() for one KPI, from weight i on.
RECURSIVE AddKeys(_, _, _, _)
AddKeys(k, v, i, acc) ==
    IF i > Len(weights) THEN acc
    ELSE IF Contains(Lower(k), weights[i].key)
         THEN AddKeys(k, v, i + 1,
                      [score |-> acc.score + KeyContribution(v, weights[i].w),
                       used |-> acc.used + weights[i].w])
    ELSE AddKeys(k, v, i + 1, acc)

\* The outer loop over kpis.items(), from item i on.
RECURSIVE AddKpis(_, _, _)
AddKpis(items, i, acc) ==
    IF i > Len(items) THEN acc
    ELSE LET v == normalize_numeric(items[i].value) IN
         IF v.none THEN AddKpis(items, i + 1, acc)
         ELSE AddKpis(items, i + 1, AddKeys(items[i].name, v.v, 1, acc))

\* calculate_esg_score(kpis): (final, status), final counting hundredths.
calculate_esg_score(items) ==
    LET acc == AddKpis(items, 1, [score |-> 0, used |-> 0]) IN
    IF acc.used = 0 THEN [done |-> TRUE, score |-> 0, status |-> "N/A"]
    ELSE LET final == RoundDiv(100 * acc.score, acc.used) IN
         [done |-> TRUE, score |-> final, status |-> classify_kpi(10000 - final)]

MaxKpis == 2

KpiNames == { <<"E","n","e","r","g","y"," ","U","s","e">>,
              <<"W","a","t","e","r","/","E","n","e","r","g","y">>,
              <<"G","H","G"," ","E","m","i","s","s","i","o","n","s">>,
              <<"W","a","s","t","e">>,
              <<"S","a","f","e","t","y">> }

KpiValues == { [num |-> TRUE, v |-> 20], [num |-> TRUE, v |-> 65],
               [num |-> TRUE, v |-> 90], [num |-> TRUE, v |-> 130],
               [num |-> FALSE, v |-> 0] }

\* A dict holds a name once.
InitEsg ==
    /\ \E n \in 0..MaxKpis :
         \E items \in [1..n -> [name : KpiNames, value : KpiValues]] :
            /\ \A i, j \in 1..n : i # j => items[i].name # items[j].name
            /\ kpis = items
    /\ esg = [done |-> FALSE]
    /\ IdleKpi /\ IdleFc /\ IdleAn /\ IdleRun /\ IdleLib

\* tab1 / tab2: score, status = calculate_esg_score(kpis)
ShowEsgScore ==
    /\ ~esg.done
    /\ esg' = calculate_esg_score(kpis)
    /\ UNCHANGED <<kpis, kpiVars, fcVars, anVars, runVars, libVars>>

NextEsg == ShowEsgScore

SpecEsg == InitEsg /\ [][NextEsg]_vars

\* The (KPI, key) pairs that count: a numeric KPI whose name contains the key.
MatchingPairs ==
    { p \in (1..Len(kpis)) \X (1..Len(weights)) :
        /\ kpis[p[1]].value.num
        /\ Contains(Lower(kpis[p[1]].name), weights[p[2]].key) }

\* The sum of f over the set S.
RECURSIVE SumOver(_, _)
SumOver(S, f) ==
    IF S = {} THEN 0
    ELSE LET x == CHOOSE y \in S : TRUE IN f[x] + SumOver(S \ {x}, f)

WeightOf == [p \in MatchingPairs |-> weights[p[2]].w]

DocumentedTerm == [p \in MatchingPairs |-> (100 - kpis[p[1]].value.v) * WeightOf[p]]

FlooredTerm ==
    [p \in MatchingPairs |->
        IF kpis[p[1]].value.v >= 100 THEN 0 ELSE DocumentedTerm[p]]

C4_StatusFollowsRiskLevels ==
    (esg.done /\ esg.status # "N/A") =>
        esg.status = (IF esg.score >= 7000 THEN "Excellent"
                      ELSE IF esg.score >= 4000 THEN "Moderate"
                      ELSE "Risky")

----------------------------------------------------------------------------
(* Forecasting: src/kpi_service.py, tab3 of pages/05 and the prediction     *)
(* section of src/company_pdf_exporter.py.  A cell is a number or empty    *)
(* (NaN); a fitted value is the exact fraction n / d.                      *)

\* The distinct years of the rows, ascending (groupby sorts its keys).
RECURSIVE SortedYears(_)
SortedYears(S) ==
    IF S = {} THEN <<>>
    ELSE LET m == CHOOSE y \in S : \A z \in S : y <= z
         IN <<m>> \o SortedYears(S \ {m})

\* Series.sum() over the rows of one year; NaN is skipped.
RECURSIVE YearTotal(_, _)
YearTotal(df, y) ==
    IF df = <<>> THEN 0
    ELSE (IF Head(df).year = y /\ Head(df).value.num THEN Head(df).value.v ELSE 0)
         + YearTotal(Tail(df), y)

\* compute_yearly_totals with the changes taken against the first year.
compute_yearly_totals_vs_first(df) ==
    LET ys == SortedYears({ df[i].year : i \in 1..Len(df) })
        total == [i \in 1..Len(ys) |-> YearTotal(df, ys[i])]
    IN [i \in 1..Len(ys) |->
          [Year |-> ys[i],
           total_value |-> total[i],
           change_abs |-> IF i = 1 THEN [nan |-> TRUE]
                          ELSE [nan |-> FALSE, v |-> total[i] - total[1]],
           change_pct |-> IF i = 1 \/ (total[1] = 0 /\ total[i] = 0)
                          THEN [kind |-> "nan"]
                          ELSE IF total[1] = 0 THEN [kind |-> "inf"]
                          ELSE [kind |-> "num",
                                n |-> 100 * (total[i] - total[1]),
                                d |-> total[1]]]]

\* compute_yearly_totals(df): one row per Year, with diff() and pct_change() * 100.
compute_yearly_totals(df) ==
    LET ys == SortedYears({ df[i].year : i \in 1..Len(df) })
        total == [i \in 1..Len(ys) |-> YearTotal(df, ys[i])]
    IN [i \in 1..Len(ys) |->
          [Year |-> ys[i],
           total_value |-> total[i],
           change_abs |-> IF i = 1 THEN [nan |-> TRUE]
                          ELSE [nan |-> FALSE, v |-> total[i] - total[i - 1]],
           change_pct |-> IF i = 1 \/ (total[i - 1] = 0 /\ total[i] = 0)
                          THEN [kind |-> "nan"]
                          ELSE IF total[i - 1] = 0 THEN [kind |-> "inf"]
                          ELSE [kind |-> "num",
                                n |-> 100 * (total[i] - total[i - 1]),
                                d |-> total[i - 1]]]]

MaxOf(S) == CHOOSE y \in S : \A z \in S : z <= y

RECURSIVE Sum(_)
Sum(seq) == IF seq = <<>> THEN 0 ELSE Head(seq) + Sum(Tail(seq))

\* The least-squares line through (X[i], Y[i]), at x; two or more distinct X.
LinearFit(X, Y, x) ==
    LET n == Len(X)
        Sx == Sum(X)
        Sy == Sum(Y)
        Sxx == Sum([i \in 1..n |-> X[i] * X[i]])
        Sxy == Sum([i \in 1..n |-> X[i] * Y[i]])
        D == n * Sxx - Sx * Sx
        N == n * Sxy - Sx * Sy
    IN [nan |-> FALSE, n |-> Sy * D - N * Sx + N * n * x, d |-> n * D]

\* forecast_next_year returning the year of a single row instead of the next.
forecast_next_year_same_year(yearly_df) ==
    IF Len(yearly_df) < 2
    THEN IF yearly_df = <<>> THEN [status |-> "raise"]
         ELSE [status |-> "ok",
               next_year |-> MaxOf({ yearly_df[i].Year : i \in 1..Len(yearly_df) }),
               pred |-> [nan |-> FALSE,
                         n |-> yearly_df[Len(yearly_df)].total_value, d |-> 1]]
    ELSE LET next_year == MaxOf({ yearly_df[i].Year : i \in 1..Len(yearly_df) }) + 1
         IN [status |-> "ok",
             next_year |-> next_year,
             pred |-> LinearFit([i \in 1..Len(yearly_df) |-> yearly_df[i].Year],
                                [i \in 1..Len(yearly_df) |-> yearly_df[i].total_value],
                                next_year)]

\* forecast_next_year(yearly_df): (next_year, predicted_value), or raise.
forecast_next_year(yearly_df) ==
    IF Len(yearly_df) < 2
    THEN IF yearly_df = <<>> THEN [status |-> "raise"]
         ELSE [status |-> "ok",
               next_year |-> MaxOf({ yearly_df[i].Year : i \in 1..Len(yearly_df) }) + 1,
               pred |-> [nan |-> FALSE,
                         n |-> yearly_df[Len(yearly_df)].total_value, d |-> 1]]
    ELSE LET next_year == MaxOf({ yearly_df[i].Year : i \in 1..Len(yearly_df) }) + 1
         IN [status |-> "ok",
             next_year |-> next_year,
             pred |-> LinearFit([i \in 1..Len(yearly_df) |-> yearly_df[i].Year],
                                [i \in 1..Len(yearly_df) |-> yearly_df[i].total_value],
                                next_year)]

\* company_data_loader.get_trend_data: the year columns in sorted order.
get_trend_data(cols) ==
    LET ys == SortedYears({ cols[i].year : i \in 1..Len(cols) })
    IN [i \in 1..Len(ys) |->
          CHOOSE c \in { cols[j] : j \in 1..Len(cols) } : c.year = ys[i]]

\* tab3: dropna, then a fit over two or more points, for years.max() + 1.
tab3_forecast(cols) ==
    LET clean_df == SelectSeq(get_trend_data(cols), LAMBDA c : c.value.num) IN
    IF Len(clean_df) >= 2
    THEN LET next_year == MaxOf({ clean_df[i].year : i \in 1..Len(clean_df) }) + 1
         IN [status |-> "ok",
             next_year |-> next_year,
             pred |-> LinearFit([i \in 1..Len(clean_df) |-> clean_df[i].year],
                                [i \in 1..Len(clean_df) |-> clean_df[i].value.v],
                                next_year)]
    ELSE [status |-> "not enough data"]

\* build_company_pdf, prediction: a fit over year_cols as the sheet orders
\* them, for int(year_cols[-1]) + 1.  One column alone gives polyfit's
\* minimum-norm line; `nanFit` tells a fit over a NaN from one that raised.
pdf_prediction(cols, nanFit) ==
    IF cols = <<>> THEN [status |-> "raise"]
    ELSE LET next_year == cols[Len(cols)].year + 1 IN
         IF \E i \in 1..Len(cols) : ~cols[i].value.num
         THEN IF nanFit
              THEN [status |-> "ok", next_year |-> next_year, pred |-> [nan |-> TRUE]]
              ELSE [status |-> "raise"]
         ELSE IF Len(cols) = 1
         THEN [status |-> "ok",
               next_year |-> next_year,
               pred |-> [nan |-> FALSE,
                         n |-> cols[1].value.v * (2 * cols[1].year + 1),
                         d |-> 2 * cols[1].year]]
         ELSE [status |-> "ok",
               next_year |-> next_year,
               pred |-> LinearFit([i \in 1..Len(cols) |-> cols[i].year],
                                  [i \in 1..Len(cols) |-> cols[i].value.v],
                                  next_year)]

MaxPoints == 3

DataYears == {2021, 2022, 2023}

DataCells == { [num |-> TRUE, v |-> 10], [num |-> TRUE, v |-> 40],
               [num |-> FALSE, v |-> 0] }

\* Year columns (or year rows) with distinct years, in any order.
InitFc ==
    /\ \E n \in 0..MaxPoints :
         \E ps \in [1..n -> [year : DataYears, value : DataCells]] :
            /\ \A i, j \in 1..n : i # j => ps[i].year # ps[j].year
            /\ points = ps
    /\ fcService = [status |-> "none"]
    /\ fcTab3 = [status |-> "none"]
    /\ fcPdf = [status |-> "none"]
    /\ IdleKpi /\ IdleEsg /\ IdleAn /\ IdleRun /\ IdleLib

\* ai_agent.answer / report_generator: forecast_next_year(compute_yearly_totals(df))
ServiceForecast ==
    /\ fcService.status = "none"
    /\ fcService' = forecast_next_year(compute_yearly_totals(points))
    /\ UNCHANGED <<points, fcTab3, fcPdf, kpiVars, esgVars, anVars, runVars, libVars>>

\* pages/05 tab3, for a metric of the selected company sheet
Tab3Forecast ==
    /\ fcTab3.status = "none"
    /\ points # <<>>
    /\ fcTab3' = tab3_forecast(points)
    /\ UNCHANGED <<points, fcService, fcPdf, kpiVars, esgVars, anVars, runVars, libVars>>

\* build_company_pdf, for a metric of the company sheet
PdfForecast ==
    /\ fcPdf.status = "none"
    /\ \E nanFit \in BOOLEAN : fcPdf' = pdf_prediction(points, nanFit)
    /\ UNCHANGED <<points, fcService, fcTab3, kpiVars, esgVars, anVars, runVars, libVars>>

NextFc == ServiceForecast \/ Tab3Forecast \/ PdfForecast

SpecFc == InitFc /\ [][NextFc]_vars

\* The latest year that has a value, and the latest year of the sheet.
LatestYearWithData == MaxOf({ points[i].year : i \in { j \in 1..Len(points) : points[j].value.num } })

LatestYear == MaxOf({ points[i].year : i \in 1..Len(points) })

\* C5: every forecasting path forecasts for the year that follows the latest
\* year present in the data, whatever the order of the year rows or columns.
C5_ForecastIsForYearAfterLatest ==
    /\ fcService.status = "ok" => fcService.next_year = LatestYear + 1
    /\ fcTab3.status = "ok" => fcTab3.next_year = LatestYearWithData + 1
    /\ (fcPdf.status = "ok" /\ ~fcPdf.pred.nan) => fcPdf.next_year = LatestYear + 1

----------------------------------------------------------------------------
(* Anomaly flagging: scripts/etl.py detect_anomalies and the Anomaly Check *)
(* of src/company_pdf_exporter.py.  With m numeric cells of sum S, a cell  *)
(* v deviates from the mean by (m*v - S) / m, and comparisons of a z-score *)
(* with a threshold are made exactly, on squares.                          *)

NumericIdx(xs) == { i \in 1..Len(xs) : xs[i].num }

\* m * v - S: the deviation of a cell v from the mean, times m.
Deviation(m, S, v) == m * v - S

\* The count m and the sum S of the numeric cells, and Q, the sum of their
\* squared deviations times m * m.
Stats(xs) ==
    LET m == Cardinality(NumericIdx(xs))
        S == Sum([j \in 1..Len(xs) |-> IF xs[j].num THEN xs[j].v ELSE 0])
    IN [m |-> m, S |-> S,
        Q |-> Sum([j \in 1..Len(xs) |->
                     IF xs[j].num
                     THEN Deviation(m, S, xs[j].v) * Deviation(m, S, xs[j].v)
                     ELSE 0])]

\* StandardScaler on the cells with NaN filled by the mean: whether the
\* z-score of cell i, z = deviation / population std over all Len(xs) cells,
\* satisfies z > tn / td; a filled cell, and any cell of a constant column,
\* has z = 0.
ZAbove(xs, st, i, tn, td) ==
    LET dev == Deviation(st.m, st.S, xs[i].v) IN
    /\ xs[i].num
    /\ dev > 0
    /\ td * td * Len(xs) * dev * dev > tn * tn * st.Q

ZBelowMinus(xs, st, i, tn, td) ==
    LET dev == Deviation(st.m, st.S, xs[i].v) IN
    /\ xs[i].num
    /\ dev < 0
    /\ td * td * Len(xs) * dev * dev > tn * tn * st.Q

\* The flag of one cell, with the Warning test written without abs().
etl_flag_no_abs(xs, st, i) ==
    IF ZAbove(xs, st, i, 2, 1) THEN "High Anomaly"
    ELSE IF ZAbove(xs, st, i, 3, 2) THEN "Warning"
    ELSE "Normal"

\* The flag of one cell: z > 2, z < -2, abs(z) > 1.5, else Normal.
etl_flag(xs, st, i) ==
    IF ZAbove(xs, st, i, 2, 1) THEN "High Anomaly"
    ELSE IF ZBelowMinus(xs, st, i, 2, 1) THEN "Low Anomaly"
    ELSE IF ZAbove(xs, st, i, 3, 2) \/ ZBelowMinus(xs, st, i, 3, 2) THEN "Warning"
    ELSE "Normal"

\* detect_anomalies(df, col): the anomaly_flag column.
detect_anomalies(xs) ==
    LET st == Stats(xs) IN [i \in 1..Len(xs) |-> etl_flag(xs, st, i)]

\* build_company_pdf: abs(v - mean) > 2 * std, std being the sample standard
\* deviation of the numeric cells (NaN with fewer than two of them).
pdf_is_anomaly(xs, st, i) ==
    LET dev == Deviation(st.m, st.S, xs[i].v) IN
    /\ xs[i].num
    /\ st.m >= 2
    /\ (st.m - 1) * dev * dev > 2 * 2 * st.Q

pdf_anomalies(xs) ==
    LET st == Stats(xs) IN { i \in 1..Len(xs) : pdf_is_anomaly(xs, st, i) }

MaxSeries == 6

SeriesCells == { [num |-> TRUE, v |-> 0], [num |-> TRUE, v |-> 1],
                 [num |-> TRUE, v |-> 5], [num |-> FALSE, v |-> 0] }

InitAn ==
    /\ \E n \in 1..MaxSeries : series \in [1..n -> SeriesCells]
    /\ etlFlags = <<>>
    /\ pdfListed = [done |-> FALSE]
    /\ IdleKpi /\ IdleEsg /\ IdleFc /\ IdleRun /\ IdleLib

\* run_etl calls detect_anomalies on the value column of a file.
EtlDetect ==
    /\ etlFlags = <<>>
    /\ etlFlags' = detect_anomalies(series)
    /\ UNCHANGED <<series, pdfListed, kpiVars, esgVars, fcVars, runVars, libVars>>

\* build_company_pdf runs the Anomaly Check on the year cells of a metric.
PdfAnomalyCheck ==
    /\ ~pdfListed.done
    /\ pdfListed' = [done |-> TRUE, years |-> pdf_anomalies(series)]
    /\ UNCHANGED <<series, etlFlags, kpiVars, esgVars, fcVars, runVars, libVars>>

NextAn == EtlDetect \/ PdfAnomalyCheck

SpecAn == InitAn /\ [][NextAn]_vars

\* The mean of the numeric cells as the fraction n / d, and the sum over
\* them of (v - mean)^2, times d * d.
SeriesMean ==
    [n |-> Sum([j \in 1..Len(series) |-> IF series[j].num THEN series[j].v ELSE 0]),
     d |-> Cardinality({ j \in 1..Len(series) : series[j].num })]

SquaredDistances(mean) ==
    Sum([j \in 1..Len(series) |->
           IF series[j].num
           THEN (series[j].v * mean.d - mean.n) * (series[j].v * mean.d - mean.n)
           ELSE 0])

\* The z-score of cell i as the detector at hand computes it, squared, as the
\* fraction n / d: the ETL divides by the population deviation over all
\* cells, the PDF by the sample deviation over the numeric cells.
EtlZSquared(i, mean, ssq) ==
    [n |-> Len(series) * (series[i].v * mean.d - mean.n) * (series[i].v * mean.d - mean.n),
     d |-> ssq]

PdfZSquared(i, mean, ssq) ==
    [n |-> (mean.d - 1) * (series[i].v * mean.d - mean.n) * (series[i].v * mean.d - mean.n),
     d |-> ssq]

\* |z| > tn / td, for z * z = zz.n / zz.d; no z-score exceeds anything when
\* the deviation is 0 or undefined.
AbsExceeds(zz, tn, td) == zz.d > 0 /\ zz.n * td * td > tn * tn * zz.d

EtlFlagged(i) == etlFlags # <<>> /\ etlFlags[i] # "Normal"

PdfFlagged(i) == pdfListed.done /\ i \in pdfListed.years

\* Flags are given only to cells whose |z| exceeds lowN / lowD, and to every
\* cell whose |z| exceeds 2.
FlaggedWithin(lowN, lowD) ==
    LET mean == SeriesMean
        ssq == SquaredDistances(mean)
    IN \A i \in 1..Len(series) :
        /\ EtlFlagged(i) =>
              (series[i].num /\ AbsExceeds(EtlZSquared(i, mean, ssq), lowN, lowD))
        /\ PdfFlagged(i) =>
              (series[i].num /\ AbsExceeds(PdfZSquared(i, mean, ssq), lowN, lowD))
        /\ (etlFlags # <<>> /\ series[i].num /\ AbsExceeds(EtlZSquared(i, mean, ssq), 2, 1))
              => EtlFlagged(i)
        /\ (pdfListed.done /\ series[i].num /\ AbsExceeds(PdfZSquared(i, mean, ssq), 2, 1))
              => PdfFlagged(i)

\* C6 as stated: a data point is flagged only if |z| > 1.8, and always if
\* |z| > 2.
C6_FlaggedOnlyAbove18 == FlaggedWithin(18, 10)

\* C6 as amended: the thresholds are 1.5 and 2: a data point is flagged only
\* if |z| > 1.5, and always if |z| > 2.
C6_FlaggedOnlyAbove15 == FlaggedWithin(15, 10)

\* Both checks have run on a series in which the ETL gave a Warning to a cell
\* whose |z| is above 1.5 and not above 1.8.
C6_Witness ==
    /\ pdfListed.done
    /\ \E i \in 1..Len(series) :
         /\ etlFlags # <<>> /\ etlFlags[i] = "Warning"
         /\ ~AbsExceeds(EtlZSquared(i, SeriesMean, SquaredDistances(SeriesMean)), 18, 10)

----------------------------------------------------------------------------
(* scripts/etl.py run_etl: the loop over the globbed files.                *)

\* The except branch leaving the loop.
etl_iteration_break(outcome, st, shown) ==
    IF outcome = "ok"
    THEN [etl |-> [pc |-> "loop", pos |-> st.pos + 1,
                   records |-> Append(st.records, st.pos + 1)],
          display |-> shown \o << [kind |-> "processing", n |-> st.pos + 1],
                                  [kind |-> "saved", n |-> st.pos + 1] >>]
    ELSE [etl |-> [pc |-> "after loop", pos |-> st.pos + 1, records |-> st.records],
          display |-> shown \o << [kind |-> "processing", n |-> st.pos + 1],
                                  [kind |-> "error", n |-> st.pos + 1] >>]

\* One iteration: try to read, clean and save the next file and append it to
\* records; on any exception print "Failed" and go on with the loop.
etl_iteration(outcome, st, shown) ==
    IF outcome = "ok"
    THEN [etl |-> [pc |-> "loop", pos |-> st.pos + 1,
                   records |-> Append(st.records, st.pos + 1)],
          display |-> shown \o << [kind |-> "processing", n |-> st.pos + 1],
                                  [kind |-> "saved", n |-> st.pos + 1] >>]
    ELSE [etl |-> [pc |-> "loop", pos |-> st.pos + 1, records |-> st.records],
          display |-> shown \o << [kind |-> "processing", n |-> st.pos + 1],
                                  [kind |-> "error", n |-> st.pos + 1] >>]

EtlProcessFile ==
    /\ program = "etl"
    /\ etl.pc = "loop"
    /\ etl.pos < Len(files)
    /\ LET next == etl_iteration(files[etl.pos + 1], etl, display) IN
         /\ etl' = next.etl
         /\ display' = next.display
    /\ UNCHANGED <<program, files, upload, session, cache, last, turns, ended>>
    /\ UNCHANGED <<kpiVars, esgVars, fcVars, anVars, libVars>>

\* After the loop: print "ETL Completed!" and return records.
EtlReturn ==
    /\ program = "etl"
    /\ etl.pc \in {"loop", "after loop"}
    /\ etl.pc = "loop" => etl.pos = Len(files)
    /\ etl' = [etl EXCEPT !.pc = "returned"]
    /\ display' = Append(display, [kind |-> "completed", n |-> 0])
    /\ UNCHANGED <<program, files, upload, session, cache, last, turns, ended>>
    /\ UNCHANGED <<kpiVars, esgVars, fcVars, anVars, libVars>>

----------------------------------------------------------------------------
(* src/pages/01_Chat_Agent.py: one run of the page script.                 *)

\* The upload handlers: try to read the file into session_state and show a
\* success; on any exception show an error.  The script then goes on.
page_upload(file, text_key, st, shown) ==
    IF file = "none" THEN [session |-> st, display |-> shown]
    ELSE IF file = "ok"
    THEN [session |-> [st EXCEPT ![text_key] = TRUE],
          display |-> Append(shown, [kind |-> "success", n |-> 0])]
    ELSE [session |-> st, display |-> Append(shown, [kind |-> "error", n |-> 0])]

\* if not GROQ_API_KEY: st.error(...); st.stop()
PageStart ==
    /\ program = "page"
    /\ session.pc = "start"
    /\ IF upload.api_key
       THEN /\ session' = [session EXCEPT !.pc = "pdf"]
            /\ display' = display
       ELSE /\ session' = [session EXCEPT !.pc = "stopped"]
            /\ display' = Append(display, [kind |-> "error", n |-> 0])
    /\ UNCHANGED <<program, files, etl, upload, cache, last, turns, ended>>
    /\ UNCHANGED <<kpiVars, esgVars, fcVars, anVars, libVars>>

PagePdfUpload ==
    /\ program = "page"
    /\ session.pc = "pdf"
    /\ LET next == page_upload(upload.pdf_file, "pdf_text", session, display) IN
         /\ session' = [next.session EXCEPT !.pc = "excel"]
         /\ display' = next.display
    /\ UNCHANGED <<program, files, etl, upload, cache, last, turns, ended>>
    /\ UNCHANGED <<kpiVars, esgVars, fcVars, anVars, libVars>>

PageExcelUpload ==
    /\ program = "page"
    /\ session.pc = "excel"
    /\ LET next == page_upload(upload.excel_files, "excel_text", session, display) IN
         /\ session' = [next.session EXCEPT !.pc = "ask"]
         /\ display' = next.display
    /\ UNCHANGED <<program, files, etl, upload, cache, last, turns, ended>>
    /\ UNCHANGED <<kpiVars, esgVars, fcVars, anVars, libVars>>

\* The question section: shown when some text is in session_state; the Ask
\* button warns on an empty question, else calls the LLM and appends question
\* and answer to chat_history, or shows an error when the call raises.
PageAsk ==
    /\ program = "page"
    /\ session.pc = "ask"
    /\ IF session.pdf_text \/ session.excel_text
       THEN CASE upload.ask = "none" ->
                   /\ session' = [session EXCEPT !.pc = "chat"]
                   /\ display' = Append(display, [kind |-> "question input", n |-> 0])
              [] upload.ask = "empty" ->
                   /\ session' = [session EXCEPT !.pc = "chat"]
                   /\ display' = display \o << [kind |-> "question input", n |-> 0],
                                               [kind |-> "warning", n |-> 0] >>
              [] upload.ask = "ok" ->
                   /\ session' = [session EXCEPT !.pc = "chat",
                                                 !.chat_history = @ + 2]
                   /\ display' = Append(display, [kind |-> "question input", n |-> 0])
              [] upload.ask = "raises" ->
                   /\ session' = [session EXCEPT !.pc = "chat"]
                   /\ display' = display \o << [kind |-> "question input", n |-> 0],
                                               [kind |-> "error", n |-> 0] >>
       ELSE /\ session' = [session EXCEPT !.pc = "chat"]
            /\ display' = Append(display, [kind |-> "info", n |-> 0])
    /\ UNCHANGED <<program, files, etl, upload, cache, last, turns, ended>>
    /\ UNCHANGED <<kpiVars, esgVars, fcVars, anVars, libVars>>

\* The conversation is displayed when chat_history is not empty; Reset Chat
\* clears session_state.
PageChat ==
    /\ program = "page"
    /\ session.pc = "chat"
    /\ LET shown == IF session.chat_history > 0
                    THEN Append(display, [kind |-> "conversation", n |-> session.chat_history])
                    ELSE display
       IN IF upload.reset
          THEN /\ session' = [pc |-> "end", pdf_text |-> FALSE, excel_text |-> FALSE,
                              chat_history |-> 0]
               /\ display' = Append(shown, [kind |-> "success", n |-> 0])
          ELSE /\ session' = [session EXCEPT !.pc = "end"]
               /\ display' = shown
    /\ UNCHANGED <<program, files, etl, upload, cache, last, turns, ended>>
    /\ UNCHANGED <<kpiVars, esgVars, fcVars, anVars, libVars>>

----------------------------------------------------------------------------
(* src/src/ai_agent.py: SustainabilityAgent.                               *)

IndicatorKey == {"energy", "water", "emissions", "waste"}

\* What the indicator files hold: rows of Year and Value.
DiskData ==
    [k \in IndicatorKey |->
       CASE k = "energy" -> << [year |-> 2023, value |-> [num |-> TRUE, v |-> 100]],
                               [year |-> 2023, value |-> [num |-> TRUE, v |-> 50]],
                               [year |-> 2024, value |-> [num |-> TRUE, v |-> 120]] >>
         [] k = "water" -> << [year |-> 2024, value |-> [num |-> TRUE, v |-> 30]] >>
         [] k = "emissions" -> << [year |-> 2023, value |-> [num |-> TRUE, v |-> 10]],
                                  [year |-> 2024, value |-> [num |-> TRUE, v |-> 20]] >>
         [] k = "waste" -> << [year |-> 2024, value |-> [num |-> TRUE, v |-> 5]] >>]

\* data_loader.load_indicator(key): reads the indicator's file, or raises.
load_indicator(key, disk_ok) ==
    IF disk_ok THEN [raise |-> FALSE, df |-> DiskData[key]] ELSE [raise |-> TRUE]

\* llm_engine.generate_sustainability_answer(query, context): the answer, or raises.
generate_sustainability_answer(context, llm_ok) ==
    IF llm_ok THEN [raise |-> FALSE, context |-> context] ELSE [raise |-> TRUE]

\* _get_data with the cache test left out.
get_data_uncached(self_cache, indicator_key, disk_ok) ==
    LET res == load_indicator(indicator_key, disk_ok) IN
    IF res.raise THEN [raise |-> TRUE, cache |-> self_cache, loaded |-> TRUE]
    ELSE [raise |-> FALSE, loaded |-> TRUE, df |-> res.df,
          cache |-> [k \in DOMAIN self_cache \cup {indicator_key} |->
                       IF k = indicator_key THEN res.df ELSE self_cache[k]]]

\* _get_data: load_indicator on a cache miss, the cached frame otherwise.
\* loaded tells whether this call went to load_indicator.
get_data(self_cache, indicator_key, disk_ok) ==
    IF indicator_key \notin DOMAIN self_cache
    THEN LET res == load_indicator(indicator_key, disk_ok) IN
         IF res.raise THEN [raise |-> TRUE, cache |-> self_cache, loaded |-> TRUE]
         ELSE [raise |-> FALSE, loaded |-> TRUE, df |-> res.df,
               cache |-> [k \in DOMAIN self_cache \cup {indicator_key} |->
                            IF k = indicator_key THEN res.df ELSE self_cache[k]]]
    ELSE [raise |-> FALSE, loaded |-> FALSE, df |-> self_cache[indicator_key],
          cache |-> self_cache]

\* any(x in q for x in xs)
AnyIn(q, xs) == \E i \in 1..Len(xs) : Contains(q, xs[i])

EnergyWords == << <<"e","n","e","r","g","y">>,
                  <<"e","l","e","c","t","r","i","c","i","t","y">>,
                  <<"p","o","w","e","r">>, <<"3","0","2">> >>
WaterWords == << <<"w","a","t","e","r">>, <<"3","0","3">> >>
EmissionWords == << <<"e","m","i","s","s","i","o","n">>, <<"c","o","2">>,
                    <<"c","a","r","b","o","n">>, <<"g","h","g">>, <<"3","0","5">> >>
WasteWords == << <<"w","a","s","t","e">>, <<"3","0","6">> >>

\* _detect_indicator with the tests in the opposite order.
detect_indicator_reversed(query) ==
    LET q == Lower(query) IN
    IF AnyIn(q, WasteWords) THEN "waste"
    ELSE IF AnyIn(q, EmissionWords) THEN "emissions"
    ELSE IF AnyIn(q, WaterWords) THEN "water"
    ELSE IF AnyIn(q, EnergyWords) THEN "energy"
    ELSE "none"

\* _detect_indicator: "none" stands for None.
detect_indicator(query) ==
    LET q == Lower(query) IN
    IF AnyIn(q, EnergyWords) THEN "energy"
    ELSE IF AnyIn(q, WaterWords) THEN "water"
    ELSE IF AnyIn(q, EmissionWords) THEN "emissions"
    ELSE IF AnyIn(q, WasteWords) THEN "waste"
    ELSE "none"

\* \w of the regular expression: letters, digits and the underscore.
IsWordChar(c) ==
    \/ IsDigit(c)
    \/ c = "_"
    \/ \E i \in 1..Len(LowerAlpha) : LowerAlpha[i] = c \/ UpperAlpha[i] = c

\* Whether \b(20[0-9]{2})\b matches at position i of query.
YearAt(query, i) ==
    /\ i + 3 <= Len(query)
    /\ query[i] = "2" /\ query[i + 1] = "0"
    /\ IsDigit(query[i + 2]) /\ IsDigit(query[i + 3])
    /\ i = 1 \/ ~IsWordChar(query[i - 1])
    /\ i + 3 = Len(query) \/ ~IsWordChar(query[i + 4])

RECURSIVE FindYears(_, _)
FindYears(query, i) ==
    IF i > Len(query) THEN <<>>
    ELSE IF YearAt(query, i)
    THEN <<ParseInt(SubSeq(query, i, i + 3))>> \o FindYears(query, i + 4)
    ELSE FindYears(query, i + 1)

\* _detect_years falling back on the earliest year of df.
detect_years_earliest(query, df) ==
    LET years_found == FindYears(query, 1) IN
    IF years_found # <<>> THEN years_found
    ELSE << CHOOSE y \in { df[i].year : i \in 1..Len(df) } :
              \A j \in 1..Len(df) : y <= df[j].year >>

\* _detect_years: the years written in the query, else the latest year of df.
detect_years(query, df) ==
    LET years_found == FindYears(query, 1) IN
    IF years_found # <<>> THEN years_found
    ELSE << MaxOf({ df[i].year : i \in 1..Len(df) }) >>

\* config.INDICATORS
INDICATORS ==
    [k \in IndicatorKey |->
       CASE k = "energy" -> [kpi_name |-> "Energy Consumption", gri_code |-> "GRI 302"]
         [] k = "water" -> [kpi_name |-> "Water Usage", gri_code |-> "GRI 303"]
         [] k = "emissions" -> [kpi_name |-> "GHG Emissions", gri_code |-> "GRI 305"]
         [] k = "waste" -> [kpi_name |-> "Waste Generation", gri_code |-> "GRI 306"]]

NoForecast == [present |-> FALSE, next_year |-> 0, pred |-> [nan |-> FALSE, n |-> 0, d |-> 1]]

\* A line of the fallback text: which line it is and the figures it prints.
TextLine(kind, yr, name, code, rec) ==
    [kind |-> kind, year |-> yr, name |-> name, code |-> code,
     total_value |-> rec.total_value, change_abs |-> rec.change_abs,
     change_pct |-> rec.change_pct]

NoRecord == [year |-> 0, total_value |-> 0, change_abs |-> [nan |-> TRUE],
             change_pct |-> [kind |-> "nan"]]

\* The lines of the fallback for the records from the i-th on: the year's
\* figures, its narrative, an empty line.
RECURSIVE fallback_records(_, _)
fallback_records(kpi_records, i) ==
    IF i > Len(kpi_records) THEN <<>>
    ELSE << TextLine("year", kpi_records[i].year, "", "", kpi_records[i]),
            TextLine("narrative", kpi_records[i].year, "", "", NoRecord),
            TextLine("empty", 0, "", "", NoRecord) >>
         \o fallback_records(kpi_records, i + 1)

\* The fallback with the narratives left out.
fallback_text_without_narratives(meta, kpi_records, forecast) ==
    << TextLine("indicator", 0, meta.kpi_name, meta.gri_code, NoRecord),
       TextLine("unit", 0, "", "", NoRecord) >>
    \o SelectSeq(fallback_records(kpi_records, 1), LAMBDA l : l.kind # "narrative")
    \o (IF forecast.present /\ forecast.pred.n # 0
        THEN << TextLine("forecast", forecast.next_year, "", "", NoRecord) >>
        ELSE <<>>)
    \o << TextLine("llm error", 0, "", "", NoRecord) >>

\* The text built in the except branch of the LLM call.
fallback_text(meta, kpi_records, forecast) ==
    << TextLine("indicator", 0, meta.kpi_name, meta.gri_code, NoRecord),
       TextLine("unit", 0, "", "", NoRecord) >>
    \o fallback_records(kpi_records, 1)
    \o (IF forecast.present /\ forecast.pred.n # 0
        THEN << TextLine("forecast", forecast.next_year, "", "", NoRecord) >>
        ELSE <<>>)
    \o << TextLine("llm error", 0, "", "", NoRecord) >>

\* What a call of answer did when it did nothing of note.
NoOutcome ==
    [raise |-> FALSE, indicator |-> "none", loaded |-> FALSE, kind |-> "none",
     years |-> <<>>, error |-> [type |-> "none", available |-> <<>>],
     llm_called |-> FALSE, llm_failed |-> FALSE, forecast_failed |-> FALSE,
     records |-> <<>>, forecast |-> NoForecast, text |-> <<>>]

\* The row of yearly for a year.
YearRow(yearly, yr) ==
    yearly[CHOOSE i \in 1..Len(yearly) : yearly[i].Year = yr]

\* answer(query): what the call returns or that it raises, the cache it leaves,
\* whether it went to load_indicator and what it gave the LLM.  forecast_ok
\* tells whether the regression of forecast_next_year goes through.
answer(query, self_cache, disk_ok, llm_ok, forecast_ok) ==
    LET indicator_key == detect_indicator(query) IN
    IF indicator_key = "none"
    THEN LET res == generate_sustainability_answer("general_question", llm_ok) IN
         [cache |-> self_cache,
          out |-> [NoOutcome EXCEPT !.raise = res.raise, !.kind = "general",
                                    !.llm_called = TRUE, !.llm_failed = res.raise,
                                    !.error = [type |-> IF res.raise THEN "llm" ELSE "none",
                                               available |-> <<>>]]]
    ELSE LET data == get_data(self_cache, indicator_key, disk_ok)
             base == [NoOutcome EXCEPT !.indicator = indicator_key, !.kind = "kpi",
                                       !.loaded = data.loaded]
         IN
         IF data.raise
         THEN [cache |-> data.cache,
               out |-> [base EXCEPT !.raise = TRUE,
                                    !.error = [type |-> "load", available |-> <<>>]]]
         ELSE LET yearly == compute_yearly_totals(data.df)
                  years_requested == detect_years(query, data.df)
                  available_years == [i \in 1..Len(yearly) |-> yearly[i].Year]
                  years_valid == SelectSeq(years_requested,
                                   LAMBDA y : \E i \in 1..Len(yearly) : yearly[i].Year = y)
              IN IF years_valid = <<>>
                 THEN [cache |-> data.cache,
                       out |-> [base EXCEPT !.raise = TRUE,
                                            !.error = [type |-> "ValueError",
                                                       available |-> available_years]]]
                 ELSE LET fc == IF forecast_ok THEN forecast_next_year(yearly)
                                ELSE [status |-> "raise"]
                          forecast == IF fc.status = "raise" THEN NoForecast
                                      ELSE [present |-> TRUE, next_year |-> fc.next_year,
                                            pred |-> fc.pred]
                          kpi_records ==
                              [i \in 1..Len(years_valid) |->
                                 LET row == YearRow(yearly, years_valid[i]) IN
                                 [year |-> years_valid[i],
                                  total_value |-> row.total_value,
                                  change_abs |-> row.change_abs,
                                  change_pct |-> row.change_pct]]
                          res == generate_sustainability_answer("kpi_context", llm_ok)
                      IN [cache |-> data.cache,
                          out |-> [base EXCEPT
                                     !.kind = IF res.raise THEN "fallback" ELSE "kpi",
                                     !.years = years_valid,
                                     !.llm_called = TRUE,
                                     !.llm_failed = res.raise,
                                     !.forecast_failed = (fc.status = "raise"),
                                     !.records = kpi_records,
                                     !.forecast = forecast,
                                     !.text = IF res.raise
                                              THEN fallback_text(INDICATORS[indicator_key],
                                                                 kpi_records, forecast)
                                              ELSE <<>>]]

----------------------------------------------------------------------------
(* src/app.py main: the question loop.                                     *)

QuitWords == { <<"q">>, <<"q","u","i","t">>, <<"e","x","i","t">> }

\* The test of the quit words made on the text as typed.
is_quit_case_sensitive(query) == query \in QuitWords

\* query.lower() in {"q", "quit", "exit"}
is_quit(query) == Lower(query) \in QuitWords

\* What the loop keeps of a pass: the line, whether agent.answer was called,
\* what was printed, and what the call did.
Entry(line, called, printed, out) ==
    [line |-> line, called |-> called, printed |-> printed,
     raise |-> out.raise, indicator |-> out.indicator, loaded |-> out.loaded,
     kind |-> out.kind, years |-> out.years, error |-> out.error,
     llm_called |-> out.llm_called, llm_failed |-> out.llm_failed,
     forecast_failed |-> out.forecast_failed, records |-> out.records,
     forecast |-> out.forecast, text |-> out.text]

\* One pass of the while loop on the line read by input().
main_iteration(line, self_cache, disk_ok, llm_ok, forecast_ok) ==
    LET query == Strip(line) IN
    IF query = <<>>
    THEN [cache |-> self_cache, ended |-> FALSE,
          last |-> Entry(line, FALSE, "nothing", NoOutcome)]
    ELSE IF is_quit(query)
    THEN [cache |-> self_cache, ended |-> TRUE,
          last |-> Entry(line, FALSE, "goodbye", NoOutcome)]
    ELSE LET res == answer(query, self_cache, disk_ok, llm_ok, forecast_ok) IN
         [cache |-> res.cache, ended |-> FALSE,
          last |-> Entry(line, TRUE, IF res.out.raise THEN "error" ELSE "answer",
                         res.out)]

----------------------------------------------------------------------------
(* The runs: the ETL over a folder, one run of the chat page, a session of *)
(* the command-line loop.                                                  *)

MaxFiles == 3
MaxTurns == 2

Topics == { <<"P","o","w","e","r">>, <<"w","a","t","e","r">>, <<"C","O","2">>,
            <<"3","0","6">> }

\* The questions that go on with years: on energy, on water, on nothing.
Asked == { <<"P","o","w","e","r">>, <<"w","a","t","e","r">>, <<"h","i">> }

Tails == { <<>>, <<" ","2","0","2","4">>, <<" ","2","0","2","1">>,
           <<" ","x","2","0","2","3">>,
           <<" ","2","0","2","4"," ","2","0","2","3">>,
           <<" ","2","0","2","1"," ","2","0","2","4">> }

Lines ==
    { a \o <<" ">> \o b : a \in Topics, b \in Topics }
      \cup { a \o t : a \in Asked, t \in Tails }
      \cup { <<>>, <<" "," ">>, <<"q">>, <<" ","Q","U","I","T"," ">>,
             <<"E","x","i","t">>, <<"q","u","i","t"," ","i","t">> }

InitRun ==
    /\ program \in {"etl", "page", "cli"}
    /\ IF program = "etl"
       THEN /\ \E n \in 0..MaxFiles : files \in [1..n -> {"ok", "raises"}]
            /\ etl = [pc |-> "loop", pos |-> 0, records |-> <<>>]
       ELSE /\ files = <<>>
            /\ etl = [pc |-> "idle"]
    /\ IF program = "page"
       THEN /\ upload \in [api_key : BOOLEAN,
                           pdf_file : {"none", "ok", "raises"},
                           excel_files : {"none", "ok", "raises"},
                           ask : {"none", "empty", "ok", "raises"},
                           reset : BOOLEAN]
            /\ upload.reset => upload.ask = "none"  \* one button per run
            /\ session = [pc |-> "start", pdf_text |-> FALSE, excel_text |-> FALSE,
                          chat_history |-> 0]
       ELSE /\ upload = [pdf_file |-> "none"]
            /\ session = [pc |-> "idle"]
    /\ display = <<>>
    /\ cache = <<>>
    /\ last = [called |-> FALSE]
    /\ turns = 0
    /\ ended = FALSE
    /\ IdleKpi /\ IdleEsg /\ IdleFc /\ IdleAn /\ IdleLib

\* query = input().strip() and the rest of one pass of the loop.
CliLine ==
    /\ program = "cli"
    /\ ~ended
    /\ turns < MaxTurns
    /\ \E line \in Lines, disk_ok \in BOOLEAN, llm_ok \in BOOLEAN,
          forecast_ok \in BOOLEAN :
         \* when the disk fails nothing else is tried
         /\ ~disk_ok => (llm_ok /\ forecast_ok)
         /\ LET next == main_iteration(line, cache, disk_ok, llm_ok, forecast_ok) IN
              /\ cache' = next.cache
              /\ last' = next.last
              /\ ended' = next.ended
    /\ turns' = turns + 1
    /\ UNCHANGED <<program, files, etl, upload, session, display>>
    /\ UNCHANGED <<kpiVars, esgVars, fcVars, anVars, libVars>>

NextRun ==
    \/ EtlProcessFile
    \/ EtlReturn
    \/ PageStart
    \/ PagePdfUpload
    \/ PageExcelUpload
    \/ PageAsk
    \/ PageChat
    \/ CliLine

SpecRun == InitRun /\ [][NextRun]_vars

----------------------------------------------------------------------------
(* What the runs are said to do.                                           *)

\* How many entries of seq are of this kind.
RECURSIVE CountIn(_, _)
CountIn(seq, kind) ==
    IF seq = <<>> THEN 0
    ELSE (IF Head(seq).kind = kind THEN 1 ELSE 0) + CountIn(Tail(seq), kind)

\* The latest thing displayed, printed or shown is an error message.
ErrorShown ==
    \/ /\ program \in {"etl", "page"}
       /\ display # <<>>
       /\ display[Len(display)].kind = "error"
    \/ /\ program = "cli"
       /\ turns > 0
       /\ last.printed = "error"

FilesDone == SubSeq(files, 1, etl.pos)

OkFiles == SelectSeq([i \in 1..etl.pos |-> i], LAMBDA i : files[i] = "ok")

PageFailures ==
    (IF upload.pdf_file = "raises" THEN 1 ELSE 0)
    + (IF upload.excel_files = "raises" THEN 1 ELSE 0)
    + (IF upload.ask = "raises" /\ "ok" \in {upload.pdf_file, upload.excel_files}
       THEN 1 ELSE 0)

C8_EveryAnswerReadsDisk ==
    (program = "cli" /\ turns > 0 /\ last.called /\ last.indicator # "none")
        => last.loaded

\* C8, amended: a call of answer that needs an indicator reads its data from
\* disk exactly when the agent's cache does not hold it; what is loaded is put
\* in the cache and everything cached stays there, as it was.
C8_DiskReadOnlyOnCacheMiss ==
    [][(program = "cli" /\ turns' = turns + 1 /\ last'.called
                        /\ last'.indicator # "none")
          => /\ last'.loaded <=> last'.indicator \notin DOMAIN cache
             /\ \A k \in DOMAIN cache : k \in DOMAIN cache' /\ cache'[k] = cache[k]
             /\ \A k \in DOMAIN cache' : cache'[k] = DiskData[k]
             /\ last'.printed = "answer" => last'.indicator \in DOMAIN cache']_vars

\* A second question answered from the cache.
C8_Witness ==
    /\ program = "cli"
    /\ turns = 2
    /\ last.called
    /\ last.printed = "answer"
    /\ last.indicator \in DOMAIN cache
    /\ ~last.loaded

Priority == <<"energy", "water", "emissions", "waste">>

KeywordsOf(k) ==
    CASE k = "energy" -> EnergyWords
      [] k = "water" -> WaterWords
      [] k = "emissions" -> EmissionWords
      [] k = "waste" -> WasteWords

Mentions(query, k) ==
    \E i \in 1..Len(KeywordsOf(k)) : Contains(Lower(query), KeywordsOf(k)[i])

FirstInPriority(query) ==
    IF \E i \in 1..Len(Priority) : Mentions(query, Priority[i])
    THEN Priority[CHOOSE i \in 1..Len(Priority) :
                    /\ Mentions(query, Priority[i])
                    /\ \A j \in 1..(i - 1) : ~Mentions(query, Priority[j])]
    ELSE "none"

\* C9: a query is handled as the first of energy, water, emissions, waste that
\* it has a keyword of; a query with no keyword goes to the LLM as a general
\* question, with no indicator data loaded and no KPIs computed.
C9_DispatchByKeywordPriority ==
    (program = "cli" /\ turns > 0 /\ last.called) =>
        /\ last.indicator = FirstInPriority(last.line)
        /\ last.indicator = "none" <=> last.kind = "general"
        /\ last.kind = "general" => ~last.loaded /\ last.years = <<>>

\* A question with keywords of emissions and of waste, handled as emissions.
C9_Witness ==
    /\ program = "cli"
    /\ turns > 0
    /\ last.called
    /\ Mentions(last.line, "waste")
    /\ Mentions(last.line, "emissions")
    /\ last.indicator = "emissions"

\* C10: the loop has ended exactly when the line read, trimmed and in lower
\* case, is q, quit or exit; an empty line does not reach the agent; an
\* exception of agent.answer is printed as an error and the loop stays open.
C10_LoopEndsOnQuitOnly ==
    (program = "cli" /\ turns > 0) =>
        /\ ended <=> Lower(Strip(last.line)) \in
                       { <<"q">>, <<"q","u","i","t">>, <<"e","x","i","t">> }
        /\ Strip(last.line) = <<>> => ~last.called /\ ~ended
        /\ (last.called /\ last.raise) => last.printed = "error" /\ ~ended
        /\ ~last.called => last.printed # "error"

\* The loop ended on a quit word typed with spaces around it and in capitals.
C10_Witness ==
    /\ program = "cli"
    /\ ended
    /\ last.line # Strip(last.line)
    /\ Strip(last.line) # Lower(Strip(last.line))

----------------------------------------------------------------------------
(* src/src/email_sender.py.  "None" stands for None (a variable that is    *)
(* not set); "" is a variable set to the empty string.                     *)

\* not x, for a string or None
Falsy(x) == x \in {"None", ""}

\* get_email_settings reading the environment only.
get_email_settings_env_only(env, config) ==
    IF env.port.set /\ ~IsDigits(env.port.text)
    THEN [raise |-> TRUE]
    ELSE [raise |-> FALSE, sender |-> env.sender, password |-> env.password,
          server |-> "smtp.gmail.com",
          port |-> IF env.port.set THEN ParseInt(env.port.text) ELSE 587]

\* get_email_settings: the environment, with int() of SMTP_PORT made first;
\* email_config when EMAIL_SENDER or EMAIL_PASSWORD is missing, and four
\* None when email_config cannot be imported.
get_email_settings(env, config) ==
    IF env.port.set /\ ~IsDigits(env.port.text)
    THEN [raise |-> TRUE]
    ELSE IF Falsy(env.sender) \/ Falsy(env.password)
    THEN IF config.present
         THEN [raise |-> FALSE, sender |-> config.sender,
               password |-> config.password,
               server |-> "email_config.SMTP_SERVER", port |-> config.port]
         ELSE [raise |-> FALSE, sender |-> "None", password |-> "None",
               server |-> "None", port |-> 0]
    ELSE [raise |-> FALSE, sender |-> env.sender, password |-> env.password,
          server |-> "smtp.gmail.com",
          port |-> IF env.port.set THEN ParseInt(env.port.text) ELSE 587]

NotConnected(outcome) ==
    [outcome |-> outcome, connected |-> FALSE, logged_in |-> FALSE,
     sent |-> FALSE, from_addr |-> "None", server |-> "None", port |-> 0,
     to_addrs |-> <<>>]

\* send_pdf_via_email: in.smtp names the SMTP call that raises, if any.
send_pdf_via_email(in) ==
    LET settings == get_email_settings(in.env, in.config) IN
    IF settings.raise THEN NotConnected("ValueError")
    ELSE IF Falsy(settings.sender) \/ Falsy(settings.password)
    THEN NotConnected("RuntimeError")
    ELSE LET recipients == <<in.receiver_email>>
                             \o (IF Falsy(in.cc) THEN <<>> ELSE <<in.cc>>)
                             \o (IF Falsy(in.bcc) THEN <<>> ELSE <<in.bcc>>)
             reached == [connected |-> in.smtp # "connect",
                         logged_in |-> in.smtp \notin {"connect", "starttls", "login"},
                         sent |-> in.smtp = "ok"]
         IN [outcome |-> IF in.smtp = "ok" THEN "True" ELSE "SMTPException",
             connected |-> reached.connected, logged_in |-> reached.logged_in,
             sent |-> reached.sent, from_addr |-> settings.sender,
             server |-> settings.server, port |-> settings.port,
             to_addrs |-> recipients]

PortCells == { [set |-> FALSE, text |-> <<>>], [set |-> TRUE, text |-> <<"2","5">>],
               [set |-> TRUE, text |-> <<"a">>], [set |-> TRUE, text |-> <<>>] }

EnvSettings ==
    [sender : {"None", "", "env@example.com"},
     password : {"None", "", "env password"},
     port : PortCells]

ConfigModules ==
    { [present |-> FALSE, sender |-> "None", password |-> "None", port |-> 0] }
      \cup [present : {TRUE}, sender : {"", "config@example.com"},
            password : {"", "config password"}, port : {465}]

InitMail ==
    /\ mailIn \in [env : EnvSettings,
                   config : ConfigModules,
                   receiver_email : {"to@example.com"},
                   cc : {"None", "cc@example.com"},
                   bcc : {"None", "", "bcc@example.com"},
                   smtp : {"ok", "connect", "starttls", "login", "send"}]
    /\ mailOut = [outcome |-> "none"]
    /\ IdleKpi /\ IdleEsg /\ IdleFc /\ IdleAn /\ IdleRun /\ IdleSvc /\ IdleStatus

SendPdfViaEmail ==
    /\ mailOut.outcome = "none"
    /\ mailOut' = send_pdf_via_email(mailIn)
    /\ UNCHANGED <<mailIn, svcVars, stVars>>
    /\ UNCHANGED <<kpiVars, esgVars, fcVars, anVars, runVars>>

NextMail == SendPdfViaEmail

SpecMail == InitMail /\ [][NextMail]_vars

ProvidesBoth(source) == ~Falsy(source.sender) /\ ~Falsy(source.password)

\* The source the settings are to come from: the environment when it has a
\* sender and a password, email_config otherwise.
MailSource == IF ProvidesBoth(mailIn.env) THEN mailIn.env ELSE mailIn.config

MailDone == mailOut.outcome \notin {"idle", "none"}

\* C11 as stated: settings come from the environment, else from email_config;
\* when neither provides both a sender and a password the call raises
\* RuntimeError with no SMTP connection opened; True is returned only after
\* send_message.
C11_RuntimeErrorWithoutCredentials ==
    MailDone =>
        /\ mailOut.connected => mailOut.from_addr = MailSource.sender
        /\ (~ProvidesBoth(mailIn.env) /\ ~ProvidesBoth(mailIn.config))
             => (mailOut.outcome = "RuntimeError" /\ ~mailOut.connected)
        /\ mailOut.outcome = "True" => mailOut.sent

PortReadable == ~mailIn.env.port.set \/ IsDigits(mailIn.env.port.text)

\* What send_pdf_via_email does instead (C11): a SMTP_PORT set in the
\* environment to something that is not an integer makes the call raise
\* ValueError before either source is looked at; with a readable port the
\* call behaves as stated.
SendPdfOutcomes ==
    MailDone =>
        /\ mailOut.connected => mailOut.from_addr = MailSource.sender
        /\ ~PortReadable => (mailOut.outcome = "ValueError" /\ ~mailOut.connected)
        /\ (PortReadable /\ ~ProvidesBoth(mailIn.env) /\ ~ProvidesBoth(mailIn.config))
             => (mailOut.outcome = "RuntimeError" /\ ~mailOut.connected)
        /\ (PortReadable /\ ProvidesBoth(MailSource))
             => mailOut.outcome \in {"True", "SMTPException"}
        /\ mailOut.outcome = "True" <=> mailOut.sent

\* A report sent with the settings of email_config, the environment having a
\* sender but no password.
SentFromEmailConfig ==
    /\ mailOut.outcome = "True"
    /\ mailOut.sent
    /\ ~Falsy(mailIn.env.sender)
    /\ Falsy(mailIn.env.password)
    /\ mailOut.from_addr = mailIn.config.sender

----------------------------------------------------------------------------
(* src/src/kpi_service.py compute_yearly_totals on indicator rows.         *)

MaxFrameRows == 3

FrameYears == {2021, 2022, 2024}

FrameCells == { [num |-> TRUE, v |-> 0], [num |-> TRUE, v |-> 30],
                [num |-> FALSE, v |-> 0] }

InitSvc ==
    /\ \E n \in 0..MaxFrameRows :
         frame \in [1..n -> [year : FrameYears, value : FrameCells]]
    /\ yearlyOut = [done |-> FALSE]
    /\ IdleKpi /\ IdleEsg /\ IdleFc /\ IdleAn /\ IdleRun /\ IdleMail /\ IdleStatus

ComputeYearlyTotals ==
    /\ ~yearlyOut.done
    /\ yearlyOut' = [done |-> TRUE, rows |-> compute_yearly_totals(frame)]
    /\ UNCHANGED <<frame, mailVars, stVars>>
    /\ UNCHANGED <<kpiVars, esgVars, fcVars, anVars, runVars>>

NextSvc == ComputeYearlyTotals

SpecSvc == InitSvc /\ [][NextSvc]_vars

FrameYearSet == { frame[i].year : i \in 1..Len(frame) }

\* The sum of the Values given for year y.
ValueSum(y) ==
    SumOver({ k \in 1..Len(frame) : frame[k].year = y /\ frame[k].value.num },
            [k \in 1..Len(frame) |-> frame[k].value.v])

\* C12: one row per distinct Year, ascending, with the sum of that year's
\* Values; no change on the first row; on every later row change_abs is the
\* total minus the previous row's total and change_pct is 100 times change_abs
\* over that previous total (not a number when that total is 0).
C12_YearlyTotalsAndChanges ==
    yearlyOut.done =>
      LET rows == yearlyOut.rows IN
        /\ Len(rows) = Cardinality(FrameYearSet)
        /\ \A i \in 1..Len(rows) :
             /\ rows[i].Year \in FrameYearSet
             /\ rows[i].total_value = ValueSum(rows[i].Year)
             /\ \A j \in 1..(i - 1) : rows[j].Year < rows[i].Year
        /\ rows # <<>> => (rows[1].change_abs.nan /\ rows[1].change_pct.kind = "nan")
        /\ \A i \in 2..Len(rows) :
             LET previous == ValueSum(rows[i - 1].Year) IN
               /\ ~rows[i].change_abs.nan
               /\ rows[i].change_abs.v = ValueSum(rows[i].Year) - previous
               /\ IF previous # 0
                  THEN /\ rows[i].change_pct.kind = "num"
                       /\ rows[i].change_pct.n * previous
                            = 100 * rows[i].change_abs.v * rows[i].change_pct.d
                  ELSE rows[i].change_pct.kind \in {"inf", "nan"}

\* Two rows of one year summed, and a change taken across a missing year.
C12_Witness ==
    /\ yearlyOut.done
    /\ Len(yearlyOut.rows) = 2
    /\ yearlyOut.rows[2].Year - yearlyOut.rows[1].Year > 1
    /\ yearlyOut.rows[2].change_pct.kind = "num"
    /\ \E i, j \in 1..Len(frame) :
         /\ i < j
         /\ frame[i].year = frame[j].year
         /\ frame[i].value.num /\ frame[i].value.v > 0
         /\ frame[j].value.num /\ frame[j].value.v > 0

----------------------------------------------------------------------------
(* forecast_next_year on the yearly tables of SpecFc.                      *)

\* C13: forecast_next_year raises on an empty yearly table and returns a
\* (next_year, predicted_value) pair on every other; for a table of one row
\* the pair is that row's year plus one and that row's total.
C13_ForecastPairOrRaise ==
    fcService.status \in {"ok", "raise"} =>
        /\ fcService.status = "raise" <=> points = <<>>
        /\ fcService.status = "ok" =>
             /\ fcService.next_year \in Int
             /\ ~fcService.pred.nan
             /\ fcService.pred.d # 0
        /\ Len(points) = 1 =>
             /\ fcService.next_year = points[1].year + 1
             /\ fcService.pred.n = fcService.pred.d *
                  (IF points[1].value.num THEN points[1].value.v ELSE 0)

\* A forecast made from a single yearly row with a total.
C13_Witness ==
    /\ fcService.status = "ok"
    /\ Len(points) = 1
    /\ points[1].value.num
    /\ fcService.pred.n > 0

----------------------------------------------------------------------------
(* src/src/indicator_status.py                                             *)

\* indicator_status with the coverage cut down to an integer.
indicator_status_floor(values) ==
    LET total == Len(values)
        reported == Cardinality({ i \in 1..total : values[i].num })
    IN IF reported = 0 THEN [done |-> TRUE, status |-> "Not Reported", coverage |-> 0]
       ELSE IF reported < total
       THEN [done |-> TRUE, status |-> "Partial",
             coverage |-> (100 * reported) \div total]
       ELSE [done |-> TRUE, status |-> "Reported", coverage |-> 100]

\* indicator_status(values): a cell is counted when pd.to_numeric makes a
\* number of it; coverage is round(reported / total * 100).
indicator_status(values) ==
    LET total == Len(values)
        reported == Cardinality({ i \in 1..total : values[i].num })
    IN IF reported = 0 THEN [done |-> TRUE, status |-> "Not Reported", coverage |-> 0]
       ELSE IF reported < total
       THEN [done |-> TRUE, status |-> "Partial",
             coverage |-> RoundDiv(100 * reported, total)]
       ELSE [done |-> TRUE, status |-> "Reported", coverage |-> 100]

MaxValues == 10

StatusCells == { [num |-> TRUE, v |-> 5], [num |-> FALSE, v |-> 0] }

InitStatus ==
    /\ \E n \in 0..MaxValues : statusIn \in [1..n -> StatusCells]
    /\ statusOut = [done |-> FALSE]
    /\ IdleKpi /\ IdleEsg /\ IdleFc /\ IdleAn /\ IdleRun /\ IdleMail /\ IdleSvc

IndicatorStatus ==
    /\ ~statusOut.done
    /\ statusOut' = indicator_status(statusIn)
    /\ UNCHANGED <<statusIn, mailVars, svcVars>>
    /\ UNCHANGED <<kpiVars, esgVars, fcVars, anVars, runVars>>

NextStatus == IndicatorStatus

SpecStatus == InitStatus /\ [][NextStatus]_vars

NumericCount == Cardinality({ i \in 1..Len(statusIn) : statusIn[i].num })

\* C14: ('Not Reported', 0) exactly when no value is numeric, ('Reported', 100)
\* exactly when there is a value and all are numeric, else ('Partial', c) with
\* c the integer nearest to 100 * reported / total; c is strictly between 0
\* and 100 for up to 10 values.
C14_StatusAndCoverage ==
    statusOut.done =>
        /\ statusOut.status = "Not Reported" <=> NumericCount = 0
        /\ statusOut.status = "Not Reported" => statusOut.coverage = 0
        /\ statusOut.status = "Reported"
             <=> (Len(statusIn) > 0 /\ NumericCount = Len(statusIn))
        /\ statusOut.status = "Reported" => statusOut.coverage = 100
        /\ statusOut.status \in {"Not Reported", "Reported", "Partial"}
        /\ statusOut.status = "Partial" =>
             LET off == 100 * NumericCount - statusOut.coverage * Len(statusIn) IN
               /\ 2 * off <= Len(statusIn)
               /\ -2 * off <= Len(statusIn)
               /\ Len(statusIn) <= 10 =>
                    (0 < statusOut.coverage /\ statusOut.coverage < 100)

\* Seven values of eight reported: a coverage of 87.5 rounded to 88.
C14_Witness ==
    /\ statusOut.done
    /\ statusOut.status = "Partial"
    /\ Len(statusIn) = 8
    /\ NumericCount = 7
    /\ statusOut.coverage = 88

----------------------------------------------------------------------------
(* The years and the fallback of SustainabilityAgent.answer.               *)

\* A year is named where a word of the query is 20 followed by two digits.
NamesYearAt(query, i) ==
    /\ i = 1 \/ ~IsWordChar(query[i - 1])
    /\ i + 3 <= Len(query)
    /\ SubSeq(query, i, i + 1) = <<"2", "0">>
    /\ IsDigits(SubSeq(query, i + 2, i + 3))
    /\ i + 3 < Len(query) => ~IsWordChar(query[i + 4])

\* The years a query names, in the order of the query.
NamedYears(query) ==
    LET at == SortedYears({ i \in 1..Len(query) : NamesYearAt(query, i) })
    IN [k \in 1..Len(at) |-> ParseInt(SubSeq(query, at[k], at[k] + 3))]

\* The years an indicator has data for, and its total for one of them.
DataYearsOf(k) == { DiskData[k][i].year : i \in 1..Len(DiskData[k]) }

DiskTotal(k, y) ==
    SumOver({ i \in 1..Len(DiskData[k]) : DiskData[k][i].year = y },
            [i \in 1..Len(DiskData[k]) |-> DiskData[k][i].value.v])

AskedIndicator ==
    /\ program = "cli"
    /\ turns > 0
    /\ last.called
    /\ last.indicator # "none"

\* C15: named years none of which has data make answer raise ValueError with
\* the available years and no LLM call; otherwise the KPI records are for the
\* named years that have data, in query order, the others being dropped; with
\* no year named the record is for the latest year of the data.
C15_YearsResolved ==
    (AskedIndicator /\ last.error.type # "load") =>
      LET named == NamedYears(last.line)
          have == DataYearsOf(last.indicator)
          kept == SelectSeq(named, LAMBDA y : y \in have)
          recorded == [i \in 1..Len(last.records) |-> last.records[i].year]
      IN /\ (named # <<>> /\ kept = <<>>) =>
              /\ last.raise
              /\ last.printed = "error"
              /\ last.error.type = "ValueError"
              /\ last.error.available = SortedYears(have)
              /\ ~last.llm_called
              /\ recorded = <<>>
         /\ kept # <<>> => (~last.raise /\ recorded = kept)
         /\ named = <<>> => (~last.raise /\ recorded = <<MaxOf(have)>>)

\* Two years named, one of them without data: one record.
C15_Witness ==
    /\ AskedIndicator
    /\ ~last.raise
    /\ Len(NamedYears(last.line)) = 2
    /\ Len(last.records) = 1
    /\ last.records[1].year = NamedYears(last.line)[2]

\* The change of an indicator's total from the previous year with data.
ChangeIsFromPreviousYear(k, rec) ==
    LET before == { z \in DataYearsOf(k) : z < rec.year } IN
    IF before = {} THEN rec.change_abs.nan
    ELSE /\ ~rec.change_abs.nan
         /\ rec.change_abs.v = DiskTotal(k, rec.year) - DiskTotal(k, MaxOf(before))

\* C16: when the LLM call fails on an indicator question answer returns a
\* text with the indicator's name and GRI code, for every valid year one line
\* with its total and change followed by its narrative, and the LLM error at
\* the end; when forecasting fails answer does not fail and has no forecast.
C16_FallbackOnLlmFailure ==
    AskedIndicator =>
      /\ last.llm_failed =>
           LET text == last.text
               yearLines == SelectSeq(text, LAMBDA l : l.kind = "year")
           IN /\ ~last.raise
              /\ last.printed = "answer"
              /\ text[1].kind = "indicator"
              /\ text[1].name = INDICATORS[last.indicator].kpi_name
              /\ text[1].code = INDICATORS[last.indicator].gri_code
              /\ Len(yearLines) = Len(last.years)
              /\ \A i \in 1..Len(last.years) :
                   /\ yearLines[i].year = last.years[i]
                   /\ yearLines[i].total_value = DiskTotal(last.indicator, last.years[i])
                   /\ ChangeIsFromPreviousYear(last.indicator, yearLines[i])
              /\ \A j \in 1..Len(text) :
                   text[j].kind = "year" =>
                     (text[j + 1].kind = "narrative" /\ text[j + 1].year = text[j].year)
              /\ text[Len(text)].kind = "llm error"
      /\ last.forecast_failed =>
           /\ ~last.raise
           /\ ~last.forecast.present
           /\ CountIn(last.text, "forecast") = 0

\* A fallback for two years, given when both the LLM and forecasting failed.
C16_Witness ==
    /\ AskedIndicator
    /\ last.llm_failed
    /\ last.forecast_failed
    /\ last.printed = "answer"
    /\ Len(last.years) = 2
    /\ CountIn(last.text, "narrative") = 2

====
